---- MODULE Spec2Model ----
(***************************************************************************)
(* Seating planner: TableConstraints, SeatingHistory and SeatingOptimizer  *)
(* of SeatingPlanner.py (greedy-remainder partition) and of                *)
(* seating_planner.py (exact-remainder partition).                         *)
(*                                                                         *)
(* Floating point values are modelled as exact rationals <<num, den>> in   *)
(* lowest terms with den > 0.  Attendee names are modelled as naturals,    *)
(* ordered as the strings are ordered by sorted().                         *)
(***************************************************************************)
EXTENDS Integers, Sequences, FiniteSets, TLC

VARIABLES
    pc,                     \* position of the running operation / its outcome
    variant,                \* "SeatingPlanner" or "seating_planner"
    constraints,            \* TableConstraints: [min_seats, max_seats]
    history,                \* SeatingHistory.history
    memory_events,          \* SeatingHistory.memory_events
    attendees,              \* optimize_seating argument
    num_tables,             \* optimize_seating argument
    head_table_assignments, \* optimize_seating argument (<<>> is None or [])
    iterations,             \* optimize_seating argument
    recent_pairings,        \* optimize_seating local
    head_table_attendees,   \* optimize_seating local
    other_attendees,        \* optimize_seating local
    best_arrangement,       \* optimize_seating local
    best_score,             \* optimize_seating local
    iter,                   \* number of loop iterations already run
    scored,                 \* number of iterations that scored a candidate
    leaders,                \* the top-scoring candidates so far, in loop order
    table,                  \* argument of the scoring functions
    result                  \* value returned by the last operation

vars == <<pc, variant, constraints, history, memory_events, attendees,
          num_tables, head_table_assignments, iterations, recent_pairings,
          head_table_attendees, other_attendees, best_arrangement,
          best_score, iter, scored, leaders, table, result>>

(***************************************************************************)
(* Bounds of the model.                                                    *)
(***************************************************************************)
MaxSeats == 3
MaxTables == 3
MaxAttendees == 6
MaxIterations == 2
MaxEvents == 3
MaxTableLen == 4
MaxArg == 5
MaxSaves == 2
MaxDate == 2
MaxPool == 8
UnbalancedTables == 15
CrowdedTables == 60

(***************************************************************************)
(* Sequences and rationals.                                                *)
(***************************************************************************)
Range(s) == {s[i] : i \in 1..Len(s)}

Min2(a, b) == IF a < b THEN a ELSE b

Max2(a, b) == IF a > b THEN a ELSE b

Abs(a) == IF a < 0 THEN -a ELSE a

RECURSIVE GCD(_, _)
GCD(a, b) == IF b = 0 THEN a ELSE GCD(b, a % b)

\* the rational n/d (d # 0) in lowest terms with a positive denominator
Rat(n, d) ==
    LET g == GCD(Abs(n), Abs(d))
        s == IF d < 0 THEN -1 ELSE 1
    IN  <<(s * n) \div g, (s * d) \div g>>

RInt(n) == <<n, 1>>

RAdd(x, y) == Rat(x[1] * y[2] + y[1] * x[2], x[2] * y[2])

RSub(x, y) == Rat(x[1] * y[2] - y[1] * x[2], x[2] * y[2])

RMul(x, y) == Rat(x[1] * y[1], x[2] * y[2])

RDiv(x, y) == Rat(x[1] * y[2], x[2] * y[1])

RAbs(x) == <<Abs(x[1]), x[2]>>

RLess(x, y) == x[1] * y[2] < y[1] * x[2]

RLeq(x, y) == x[1] * y[2] <= y[1] * x[2]

RMax(x, y) == IF RLess(x, y) THEN y ELSE x

\* the sum of s[lo..hi], added up by halves
RECURSIVE RSumRange(_, _, _)
RSumRange(s, lo, hi) ==
    IF lo > hi THEN RInt(0)
    ELSE IF lo = hi THEN RAdd(s[lo], RInt(0))
    ELSE LET mid == (lo + hi) \div 2
         IN  RAdd(RSumRange(s, lo, mid), RSumRange(s, mid + 1, hi))

\* sum() of a list of rationals
RSum(s) == RSumRange(s, 1, Len(s))

\* len([x for x in s if keep(x)])
CountBy(s, keep(_)) == Cardinality({i \in 1..Len(s) : keep(s[i])})

\* the orderings of a finite set of list positions
RECURSIVE PermsOf(_)
PermsOf(S) ==
    IF S = {} THEN {<<>>}
    ELSE UNION {{<<x>> \o q : q \in PermsOf(S \ {x})} : x \in S}

\* the outcomes of random.shuffle on a list of length n: the list positions
\* in their new order
ShuffleOutcomes(n) == PermsOf(1..n)

Identity(n) == [i \in 1..n |-> i]

RECURSIVE SetToSortedSeq(_)
SetToSortedSeq(S) ==
    IF S = {} THEN <<>>
    ELSE LET m == CHOOSE x \in S : \A y \in S : x <= y
         IN  <<m>> \o SetToSortedSeq(S \ {m})

Shuffled(s, p) == [i \in 1..Len(s) |-> s[p[i]]]

(***************************************************************************)
(* Attendee                                                                *)
(***************************************************************************)
Genders == {"F", "M"}
Seniorities == {"senior", "junior"}
Fields == {"Sales", "Engineering", "Marketing"}

Attendee(name, gender, seniority, field, assign_head_table) ==
    [name |-> name, gender |-> gender, seniority |-> seniority,
     field |-> field, assign_head_table |-> assign_head_table]

\* the sample population: Person n of the test fixture, with the given flag
Person(n, flag) ==
    Attendee(n,
             IF n % 2 = 1 THEN "F" ELSE "M",
             IF n % 4 \in {1, 3} THEN "senior" ELSE "junior",
             IF n % 3 = 1 THEN "Sales"
             ELSE IF n % 3 = 2 THEN "Engineering" ELSE "Marketing",
             flag)

\* the lower limit of min_seats off by one
TableConstraintsRaises_off_by_one(min_seats, max_seats) ==
    IF min_seats > max_seats THEN TRUE
    ELSE IF min_seats < 1 THEN TRUE
    ELSE FALSE

(***************************************************************************)
(* TableConstraints.__post_init__                                          *)
(***************************************************************************)
TableConstraintsRaises(min_seats, max_seats) ==
    IF min_seats > max_seats THEN TRUE
    ELSE IF min_seats < 2 THEN TRUE
    ELSE FALSE

(***************************************************************************)
(* SeatingHistory.get_recent_pairings                                      *)
(***************************************************************************)
\* the first memory_events events of the history instead of the last
RecentEvents_oldest(hist, mem) ==
    SubSeq(hist, 1, Min2(mem, Len(hist)))

\* history[-memory_events:] if history else []
RecentEvents(hist, mem) ==
    LET n == Len(hist)
        start == IF mem > 0 THEN Max2(n - mem, 0) ELSE Min2(-mem, n)
    IN  IF hist = <<>> THEN <<>> ELSE SubSeq(hist, start + 1, n)

\* tuple(sorted([name1, name2]))
SortedPair(name1, name2) ==
    IF name2 < name1 THEN <<name2, name1>> ELSE <<name1, name2>>

\* the index pairs itertools.combinations(range(n), 2) runs through
Combinations2(n) == {c \in (1..n) \X (1..n) : c[1] < c[2]}

EventNames(event) ==
    UNION {{event.arrangement[t][k].name :
                k \in 1..Len(event.arrangement[t])} :
           t \in 1..Len(event.arrangement)}

CoSeated(event, pair) ==
    \E t \in 1..Len(event.arrangement) :
        \E c \in Combinations2(Len(event.arrangement[t])) :
            SortedPair(event.arrangement[t][c[1]].name,
                       event.arrangement[t][c[2]].name) = pair

\* the pairs that were never seated together left out of the mapping
get_recent_pairings_sparse(hist, mem) ==
    LET recent_events == RecentEvents(hist, mem)
        all_attendees ==
            UNION {EventNames(recent_events[e]) : e \in 1..Len(recent_events)}
        keys == {pair \in {SortedPair(a, b) : a, b \in all_attendees} :
                    \E e \in 1..Len(recent_events) :
                        CoSeated(recent_events[e], pair)}
    IN  [pair \in keys |->
            [event_idx \in 1..Len(recent_events) |->
                IF CoSeated(recent_events[event_idx], pair) THEN 1 ELSE 0]]

get_recent_pairings(hist, mem) ==
    LET recent_events == RecentEvents(hist, mem)
        all_attendees ==
            UNION {EventNames(recent_events[e]) : e \in 1..Len(recent_events)}
        keys == {SortedPair(a, b) : a, b \in all_attendees} \
                    {<<a, a>> : a \in all_attendees}
    IN  [pair \in keys |->
            [event_idx \in 1..Len(recent_events) |->
                IF CoSeated(recent_events[event_idx], pair) THEN 1 ELSE 0]]

(***************************************************************************)
(* SeatingHistory.save_arrangement                                         *)
(***************************************************************************)
\* list.sort(key=date) of a list whose last element is the only one that may
\* be out of place: the sort is stable, so the element moves in front of
\* exactly the events with a later date
RECURSIVE SortByDate(_)
SortByDate(events) ==
    IF events = <<>> THEN <<>>
    ELSE LET sorted == SortByDate(SubSeq(events, 1, Len(events) - 1))
             last == events[Len(events)]
             keep == Cardinality({i \in 1..Len(sorted) :
                                    sorted[i].date <= last.date})
         IN  SubSeq(sorted, 1, keep) \o <<last>>
                \o SubSeq(sorted, keep + 1, Len(sorted))

\* the event appended and the history left as it is
save_arrangement_unsorted(hist, arrangement, date) ==
    Append(hist, [date |-> date, arrangement |-> arrangement])

\* history.append({date, arrangement}); history.sort(key=date)
save_arrangement(hist, arrangement, date) ==
    SortByDate(Append(hist, [date |-> date, arrangement |-> arrangement]))

(***************************************************************************)
(* SeatingOptimizer scoring functions                                      *)
(***************************************************************************)
\* the gender imbalance added to the score instead of subtracted from it
calculate_table_diversity_score_sign(tbl, min_seats) ==
    IF tbl = <<>> \/ Len(tbl) < min_seats THEN RInt(0)
    ELSE
        LET n == Len(tbl)
            gender_ratio == Rat(CountBy(tbl, LAMBDA a : a.gender = "F"), n)
            gender_score == RAdd(RInt(1), RAbs(RSub(Rat(1, 2), gender_ratio)))
            senior_ratio ==
                Rat(CountBy(tbl, LAMBDA a : a.seniority = "senior"), n)
            seniority_score ==
                RSub(RInt(1), RAbs(RSub(Rat(1, 2), senior_ratio)))
            unique_fields == Cardinality({tbl[i].field : i \in 1..n})
            field_score == Rat(unique_fields, n)
        IN  RDiv(RAdd(RAdd(gender_score, seniority_score), field_score),
                 RInt(3))

\* SeatingPlanner.py: unweighted mean of the three category scores
calculate_table_diversity_score(tbl, min_seats) ==
    IF tbl = <<>> \/ Len(tbl) < min_seats THEN RInt(0)
    ELSE
        LET n == Len(tbl)
            gender_ratio == Rat(CountBy(tbl, LAMBDA a : a.gender = "F"), n)
            gender_score == RSub(RInt(1), RAbs(RSub(Rat(1, 2), gender_ratio)))
            senior_ratio ==
                Rat(CountBy(tbl, LAMBDA a : a.seniority = "senior"), n)
            seniority_score ==
                RSub(RInt(1), RAbs(RSub(Rat(1, 2), senior_ratio)))
            unique_fields == Cardinality({tbl[i].field : i \in 1..n})
            field_score == Rat(unique_fields, n)
        IN  RDiv(RAdd(RAdd(gender_score, seniority_score), field_score),
                 RInt(3))

\* self.weights of seating_planner.py (constructor default)
gender_weight == 1
seniority_weight == 1
field_weight == 1

\* seating_planner.py: weighted mean of the three category scores
calculate_table_diversity_score_weighted(tbl, min_seats) ==
    IF tbl = <<>> \/ Len(tbl) < min_seats THEN RInt(0)
    ELSE
        LET n == Len(tbl)
            gender_ratio == Rat(CountBy(tbl, LAMBDA a : a.gender = "F"), n)
            gender_score == RSub(RInt(1), RAbs(RSub(Rat(1, 2), gender_ratio)))
            senior_ratio ==
                Rat(CountBy(tbl, LAMBDA a : a.seniority = "senior"), n)
            seniority_score ==
                RSub(RInt(1), RAbs(RSub(Rat(1, 2), senior_ratio)))
            unique_fields == Cardinality({tbl[i].field : i \in 1..n})
            field_score == Rat(unique_fields, n)
        IN  RDiv(RAdd(RAdd(RMul(gender_score, RInt(gender_weight)),
                           RMul(seniority_score, RInt(seniority_weight))),
                      RMul(field_score, RInt(field_weight))),
                 RInt(gender_weight + seniority_weight + field_weight))

time_weights == <<Rat(10, 10), Rat(6, 10), Rat(3, 10)>>

\* a seating together that costs nothing
WeightedPenalty_forgetful(pair_history) == RInt(0)

\* sum(w * h for w, h in zip(time_weights[:len(pair_history)], pair_history))
WeightedPenalty(pair_history) ==
    LET n == Min2(Len(time_weights), Len(pair_history))
    IN  RSum([k \in 1..n |-> RMul(time_weights[k], RInt(pair_history[k]))])

\* the sum of the values of a function with a finite domain
RECURSIVE RSumFn(_)
RSumFn(f) ==
    IF DOMAIN f = {} THEN RInt(0)
    ELSE LET x == CHOOSE y \in DOMAIN f : TRUE
         IN  RAdd(f[x], RSumFn([z \in DOMAIN f \ {x} |-> f[z]]))

\* the in-table pairs that are keys of the pairing memory
PairsWithHistory(tbl, pairings) ==
    {c \in Combinations2(Len(tbl)) :
        SortedPair(tbl[c[1]].name, tbl[c[2]].name) \in DOMAIN pairings}

\* the penalty without the clamp at 0
ClampPenalty_unclamped(avg_penalty) == RSub(RInt(1), avg_penalty)

\* max(0, 1 - avg_penalty)
ClampPenalty(avg_penalty) == RMax(RInt(0), RSub(RInt(1), avg_penalty))

\* a table without any known pair scored as the worst case
calculate_time_weighted_penalty_worst(tbl, pairings, min_seats) ==
    IF tbl = <<>> \/ Len(tbl) < min_seats THEN RInt(0)
    ELSE
        LET known == PairsWithHistory(tbl, pairings)
            total_penalty ==
                RSumFn([c \in known |->
                            WeightedPenalty(
                                pairings[SortedPair(tbl[c[1]].name,
                                                    tbl[c[2]].name)])])
            num_pairs == Cardinality(known)
        IN  IF num_pairs = 0 THEN RInt(0)
            ELSE ClampPenalty(RDiv(total_penalty, RInt(num_pairs)))

calculate_time_weighted_penalty(tbl, pairings, min_seats) ==
    IF tbl = <<>> \/ Len(tbl) < min_seats THEN RInt(0)
    ELSE
        LET known == PairsWithHistory(tbl, pairings)
            total_penalty ==
                RSumFn([c \in known |->
                            WeightedPenalty(
                                pairings[SortedPair(tbl[c[1]].name,
                                                    tbl[c[2]].name)])])
            num_pairs == Cardinality(known)
        IN  IF num_pairs = 0 THEN RInt(1)
            ELSE ClampPenalty(RDiv(total_penalty, RInt(num_pairs)))

(***************************************************************************)
(* Partition of the remaining pool into the flexible tables.  A partition  *)
(* either raises or returns: [raised |-> "none", tables |-> ...].          *)
(***************************************************************************)
Returns(tables) == [raised |-> "none", tables |-> tables]

Raises(error) == [raised |-> error, tables |-> <<>>]

\* tables = [[] for _ in range(num_tables)]
RECURSIVE EmptyTables(_)
EmptyTables(n) == IF n = 0 THEN <<>> ELSE Append(EmptyTables(n - 1), <<>>)

\* up to n pops from the end of the list, in the order they are popped
RECURSIVE Popped(_, _)
Popped(remaining_attendees, n) ==
    IF n = 0 \/ remaining_attendees = <<>> THEN <<>>
    ELSE <<remaining_attendees[Len(remaining_attendees)]>>
            \o Popped(SubSeq(remaining_attendees, 1,
                             Len(remaining_attendees) - 1), n - 1)

\* first pass of create_balanced_tables: min_seats pops for each table,
\* k tables done
RECURSIVE FirstPass(_, _, _, _)
FirstPass(tables, remaining_attendees, k, min_seats) ==
    IF k = Len(tables)
    THEN [tables |-> tables, remaining_attendees |-> remaining_attendees]
    ELSE LET popped == Popped(remaining_attendees, min_seats)
         IN  FirstPass(
                [tables EXCEPT ![k + 1] = @ \o popped],
                SubSeq(remaining_attendees, 1,
                       Len(remaining_attendees) - Len(popped)),
                k + 1, min_seats)

\* min(valid_tables, key=len): the first of the smallest tables below max
TargetTable(tables, max_seats) ==
    LET valid_tables == {t \in 1..Len(tables) : Len(tables[t]) < max_seats}
    IN  CHOOSE t \in valid_tables :
            \A u \in valid_tables :
                \/ Len(tables[t]) < Len(tables[u])
                \/ Len(tables[t]) = Len(tables[u]) /\ t <= u

\* the second pass without the check that a table below max_seats is left
RECURSIVE SecondPass_uncapped(_, _, _)
SecondPass_uncapped(tables, remaining_attendees, max_seats) ==
    IF remaining_attendees = <<>> THEN Returns(tables)
    ELSE SecondPass_uncapped(
            [tables EXCEPT ![1] =
                Append(@, remaining_attendees[Len(remaining_attendees)])],
            SubSeq(remaining_attendees, 1, Len(remaining_attendees) - 1),
            max_seats)

\* second pass of create_balanced_tables: one pop for the smallest table
RECURSIVE SecondPass(_, _, _)
SecondPass(tables, remaining_attendees, max_seats) ==
    IF remaining_attendees = <<>> THEN Returns(tables)
    ELSE IF \A t \in 1..Len(tables) : Len(tables[t]) >= max_seats
    THEN Raises("ValueError")
    ELSE SecondPass(
            [tables EXCEPT ![TargetTable(tables, max_seats)] =
                Append(@, remaining_attendees[Len(remaining_attendees)])],
            SubSeq(remaining_attendees, 1, Len(remaining_attendees) - 1),
            max_seats)

\* the check of the target size against min_seats left out
create_balanced_tables_unchecked(pool, tables_wanted, c) ==
    IF pool = <<>> THEN Returns(<<>>)
    ELSE IF tables_wanted = 0 THEN Raises("ZeroDivisionError")
    ELSE LET first == FirstPass(EmptyTables(tables_wanted), pool, 0,
                                c.min_seats)
         IN  SecondPass(first.tables, first.remaining_attendees, c.max_seats)

\* SeatingPlanner.py: greedy-remainder partition
create_balanced_tables(pool, tables_wanted, c) ==
    IF pool = <<>> THEN Returns(<<>>)
    ELSE IF tables_wanted = 0 THEN Raises("ZeroDivisionError")
    ELSE IF Len(pool) \div tables_wanted < c.min_seats
    THEN Raises("ValueError")
    ELSE LET first == FirstPass(EmptyTables(tables_wanted), pool, 0,
                                c.min_seats)
         IN  SecondPass(first.tables, first.remaining_attendees, c.max_seats)

\* the extra attendees given to the last tables instead of the first
TableSize_last(total_remaining, remaining_tables, i) ==
    (total_remaining \div remaining_tables)
        + (IF i >= remaining_tables - (total_remaining % remaining_tables)
           THEN 1 ELSE 0)

\* table_size of the i-th flexible table (i from 0) in seating_planner.py
TableSize(total_remaining, remaining_tables, i) ==
    (total_remaining \div remaining_tables)
        + (IF i < total_remaining % remaining_tables THEN 1 ELSE 0)

\* every slice started at a multiple of base_size
StartIdx_overlapping(total_remaining, remaining_tables, i) ==
    i * (total_remaining \div remaining_tables)

\* start_idx before the i-th flexible table (i from 0)
RECURSIVE StartIdx(_, _, _)
StartIdx(total_remaining, remaining_tables, i) ==
    IF i = 0 THEN 0
    ELSE StartIdx(total_remaining, remaining_tables, i - 1)
            + TableSize(total_remaining, remaining_tables, i - 1)

\* seating_planner.py: exact-remainder partition inside optimize_seating
ExactRemainderTables(remaining_attendees, remaining_tables, c) ==
    LET total_remaining == Len(remaining_attendees)
    IN  IF remaining_tables = 0 THEN Raises("ZeroDivisionError")
        ELSE IF \E i \in 0..(remaining_tables - 1) :
                    \/ TableSize(total_remaining, remaining_tables, i)
                            < c.min_seats
                    \/ TableSize(total_remaining, remaining_tables, i)
                            > c.max_seats
        THEN Raises("ValueError")
        ELSE Returns(
                [t \in 1..remaining_tables |->
                    SubSeq(remaining_attendees,
                           StartIdx(total_remaining, remaining_tables, t - 1)
                               + 1,
                           StartIdx(total_remaining, remaining_tables, t))])

Variants == {"SeatingPlanner", "seating_planner"}

Partition(v, pool, tables_wanted, c) ==
    IF v = "SeatingPlanner" THEN create_balanced_tables(pool, tables_wanted, c)
    ELSE ExactRemainderTables(pool, tables_wanted, c)

(***************************************************************************)
(* Composite score of a candidate arrangement.                             *)
(***************************************************************************)
\* sum(abs(s1 - s2) for s1, s2 in combinations(other_table_sizes, 2))
SumSizeVariations(other_tables) ==
    LET n == Len(other_tables)
    IN  RSum([i \in 1..(n - 1) |->
                RSum([j \in 1..(n - i) |->
                        RInt(Abs(Len(other_tables[i])
                                    - Len(other_tables[i + j])))])])

\* the number of tables the sum of size variations is divided by
BalanceDivisor(v, current_arrangement) ==
    IF v = "SeatingPlanner" THEN Len(current_arrangement)
    ELSE Len(current_arrangement) - 1

size_balance_score(v, current_arrangement, c) ==
    LET other_tables == Tail(current_arrangement)
    IN  IF Len(other_tables) < 2 THEN RInt(1)
        ELSE RSub(RInt(1),
                  RDiv(SumSizeVariations(other_tables),
                       RInt(BalanceDivisor(v, current_arrangement)
                                * c.max_seats)))

DiversityOf(v, tbl, c) ==
    IF v = "SeatingPlanner"
    THEN calculate_table_diversity_score(tbl, c.min_seats)
    ELSE calculate_table_diversity_score_weighted(tbl, c.min_seats)

current_score(v, current_arrangement, pairings, c) ==
    LET n == Len(current_arrangement)
        diversity_scores ==
            [t \in 1..n |-> DiversityOf(v, current_arrangement[t], c)]
        recency_scores ==
            [t \in 1..n |->
                calculate_time_weighted_penalty(current_arrangement[t],
                                                pairings, c.min_seats)]
    IN  RAdd(RAdd(RDiv(RMul(Rat(6, 10), RSum(diversity_scores)), RInt(n)),
                  RDiv(RMul(Rat(25, 100), RSum(recency_scores)), RInt(n))),
             RMul(Rat(15, 100), size_balance_score(v, current_arrangement, c)))

(***************************************************************************)
(* random.shuffle.  Every function of the program reads a table through    *)
(* its length, its members and its unordered pairs only, so of the         *)
(* shuffles that seat the same people at the same tables one is kept: the  *)
(* one that lists each table's drawn members by increasing name.           *)
(***************************************************************************)
\* first shuffle: which of the n available attendees fill the head table
HeadDraws(n, seats_needed) ==
    {SetToSortedSeq(S) \o SetToSortedSeq((1..n) \ S) :
        S \in {T \in SUBSET (1..n) : Cardinality(T) = Min2(seats_needed, n)}}

\* the position of list index i inside the tables of a partition of 1..m
SlotOf(tables, i) ==
    CHOOSE ts \in {ts \in (1..Len(tables)) \X (1..MaxAttendees) :
                    ts[2] <= Len(tables[ts[1]])} :
        tables[ts[1]][ts[2]] = i

\* second shuffle: which of the m pool attendees go to which flexible table
PoolDraws(v, m, tables_wanted, c) ==
    LET dealt == Partition(v, Identity(m), tables_wanted, c)
        sizes == [t \in 1..Len(dealt.tables) |-> Len(dealt.tables[t])]
        deals == {a \in [1..m -> 1..Len(dealt.tables)] :
                    \A t \in 1..Len(dealt.tables) :
                        Cardinality({i \in 1..m : a[i] = t}) = sizes[t]}
    IN  IF dealt.raised # "none" \/ dealt.tables = <<>> THEN {Identity(m)}
        ELSE {[i \in 1..m |->
                 LET ts == SlotOf(dealt.tables, i)
                 IN  SetToSortedSeq({j \in 1..m : a[j] = ts[1]})[ts[2]]] :
              a \in deals}

(***************************************************************************)
(* SeatingOptimizer.optimize_seating                                       *)
(***************************************************************************)
\* the flags ignored
HeadTableAttendees_unflagged(att, override) == override

\* head_table_assignments or [a for a in attendees if a.assign_head_table]
HeadTableAttendees(att, override) ==
    IF override # <<>> THEN override
    ELSE SelectSeq(att, LAMBDA a : a.assign_head_table)

\* the fixed head-table attendees left in the pool
OtherAttendees_unfiltered(att, head) == att

\* [a for a in attendees if a not in head_table_attendees]
OtherAttendees(att, head) ==
    SelectSeq(att, LAMBDA a : a \notin Range(head))

min_required(c, tables_wanted) ==
    c.max_seats + c.min_seats * (tables_wanted - 1)

\* the check of the number of fixed head-table attendees left out
ValidationRaises_unchecked_head(att, head, tables_wanted, c) ==
    IF Len(att) < min_required(c, tables_wanted) THEN TRUE
    ELSE FALSE

ValidationRaises(att, head, tables_wanted, c) ==
    IF Len(att) < min_required(c, tables_wanted) THEN TRUE
    ELSE IF Len(head) > c.max_seats THEN TRUE
    ELSE FALSE

\* the list the first shuffle of an iteration is applied to
AvailableForHead(v, others) ==
    IF v = "SeatingPlanner" THEN others
    ELSE SelectSeq(others, LAMBDA a : ~a.assign_head_table)

FirstShuffles(v, head, others, c) ==
    IF Len(head) < c.max_seats
    THEN HeadDraws(Len(AvailableForHead(v, others)), c.max_seats - Len(head))
    ELSE {Identity(Len(AvailableForHead(v, others)))}

\* current_head_table after the fill
CurrentHeadTable(v, head, others, c, p1) ==
    LET available_for_head == Shuffled(AvailableForHead(v, others), p1)
        seats_needed == c.max_seats - Len(head)
    IN  IF Len(head) < c.max_seats
        THEN head \o SubSeq(available_for_head, 1,
                            Min2(seats_needed, Len(available_for_head)))
        ELSE head

\* the list the second shuffle of an iteration is applied to
RemainingPool(v, head, others, c, p1) ==
    LET available_for_head == Shuffled(AvailableForHead(v, others), p1)
        seats_needed == c.max_seats - Len(head)
        current_head_table == CurrentHeadTable(v, head, others, c, p1)
    IN  IF v = "SeatingPlanner"
        THEN IF Len(head) < c.max_seats
             THEN SubSeq(available_for_head, seats_needed + 1,
                         Len(available_for_head))
             ELSE others
        ELSE SelectSeq(others, LAMBDA a : a \notin Range(current_head_table))

\* start of optimize_seating up to the two validation checks
OptimizeValidate ==
    /\ pc = "call"
    /\ recent_pairings' = get_recent_pairings(history, memory_events)
    /\ best_arrangement' = <<>>
    /\ best_score' = RInt(-1)
    /\ leaders' = <<>>
    /\ head_table_attendees' =
            HeadTableAttendees(attendees, head_table_assignments)
    /\ other_attendees' = OtherAttendees(attendees, head_table_attendees')
    /\ pc' = IF ValidationRaises(attendees, head_table_attendees', num_tables,
                                 constraints)
             THEN "ConstraintError" ELSE "loop"
    /\ UNCHANGED <<variant, constraints, history, memory_events, attendees,
                   num_tables, head_table_assignments, iterations, iter,
                   scored, table, result>>

\* a candidate with an equal score taken as an improvement
Improves_or_equal(score, best) == RLeq(best, score)

\* if current_score > best_score
Improves(score, best) == RLess(best, score)

\* the scored candidates with the highest score so far, in loop order
LeadersAfter(ls, candidate) ==
    IF ls = <<>> \/ RLess(ls[1].score, candidate.score) THEN <<candidate>>
    ELSE IF candidate.score = ls[1].score THEN Append(ls, candidate)
    ELSE ls

\* an infeasible partition ending the call at once
IterateEffect_surfaced(other_tables, current_arrangement, score) ==
    IF other_tables.raised # "none"
    THEN /\ pc' = "InfeasibleError"
         /\ UNCHANGED <<best_arrangement, best_score, iter, scored, leaders>>
    ELSE /\ iter' = iter + 1
         /\ scored' = scored + 1
         /\ leaders' = LeadersAfter(leaders,
                            [arrangement |-> current_arrangement,
                             score |-> score])
         /\ IF Improves(score, best_score)
            THEN /\ best_score' = score
                 /\ best_arrangement' = current_arrangement
            ELSE UNCHANGED <<best_arrangement, best_score>>
         /\ pc' = pc

\* the body of the try statement once the partition has been attempted:
\* a ValueError is caught and the loop goes on, any other error escapes,
\* a candidate is scored and compared with the best one
IterateEffect(other_tables, current_arrangement, score) ==
    IF other_tables.raised = "ZeroDivisionError"
    THEN /\ pc' = "ZeroDivisionError"
         /\ UNCHANGED <<best_arrangement, best_score, iter, scored, leaders>>
    ELSE IF other_tables.raised = "ValueError"
    THEN /\ iter' = iter + 1
         /\ UNCHANGED <<pc, best_arrangement, best_score, scored, leaders>>
    ELSE /\ iter' = iter + 1
         /\ scored' = scored + 1
         /\ leaders' = LeadersAfter(leaders,
                            [arrangement |-> current_arrangement,
                             score |-> score])
         /\ IF Improves(score, best_score)
            THEN /\ best_score' = score
                 /\ best_arrangement' = current_arrangement
            ELSE UNCHANGED <<best_arrangement, best_score>>
         /\ pc' = pc

\* one iteration of the search loop
OptimizeIterate ==
    /\ pc = "loop"
    /\ iter < iterations
    /\ \E p1 \in FirstShuffles(variant, head_table_attendees, other_attendees,
                               constraints) :
        LET current_head_table ==
                CurrentHeadTable(variant, head_table_attendees,
                                 other_attendees, constraints, p1)
            pool == RemainingPool(variant, head_table_attendees,
                                  other_attendees, constraints, p1)
        IN  \E p2 \in PoolDraws(variant, Len(pool), num_tables - 1,
                                constraints) :
            LET other_tables == Partition(variant, Shuffled(pool, p2),
                                          num_tables - 1, constraints)
                current_arrangement ==
                    <<current_head_table>> \o other_tables.tables
                score == current_score(variant, current_arrangement,
                                       recent_pairings, constraints)
            IN  \E candidate \in {[arrangement |-> current_arrangement,
                                    score |-> score]} :
                    IterateEffect(other_tables, candidate.arrangement,
                                  candidate.score)
    /\ UNCHANGED <<variant, constraints, history, memory_events, attendees,
                   num_tables, head_table_assignments, iterations,
                   recent_pairings, head_table_attendees, other_attendees,
                   table, result>>

\* the returned arrangement committed to the history by the call itself
OptimizeTerminate_committing ==
    /\ pc = "loop"
    /\ iter = iterations
    /\ IF best_arrangement = <<>>
       THEN pc' = "InfeasibleError" /\ result' = result
                /\ history' = history
       ELSE IF Len(best_arrangement[1]) # constraints.max_seats
       THEN pc' = "InternalError" /\ result' = result /\ history' = history
       ELSE /\ pc' = "returned"
            /\ result' = best_arrangement
            /\ history' = save_arrangement(history, best_arrangement, 1)
    /\ UNCHANGED <<variant, constraints, memory_events, attendees,
                   num_tables, head_table_assignments, iterations,
                   recent_pairings, head_table_attendees, other_attendees,
                   best_arrangement, best_score, iter, scored, leaders,
                   table>>

\* the checks after the loop and the return
OptimizeTerminate ==
    /\ pc = "loop"
    /\ iter = iterations
    /\ IF best_arrangement = <<>>
       THEN pc' = "InfeasibleError" /\ result' = result
       ELSE IF Len(best_arrangement[1]) # constraints.max_seats
       THEN pc' = "InternalError" /\ result' = result
       ELSE pc' = "returned" /\ result' = best_arrangement
    /\ UNCHANGED <<variant, constraints, history, memory_events, attendees,
                   num_tables, head_table_assignments, iterations,
                   recent_pairings, head_table_attendees, other_attendees,
                   best_arrangement, best_score, iter, scored, leaders,
                   table>>

(***************************************************************************)
(* One call of optimize_seating on a sample population.                    *)
(***************************************************************************)
\* the TableConstraints values that can be constructed
ConstraintValues ==
    {c \in [min_seats : 0..MaxSeats, max_seats : 0..MaxSeats] :
        ~TableConstraintsRaises(c.min_seats, c.max_seats)}

\* an event of the history: the tables are given by their members' names
Event(date, names) ==
    [date |-> date,
     arrangement |->
        [t \in 1..Len(names) |->
            [k \in 1..Len(names[t]) |-> Person(names[t][k], FALSE)]]]

SampleHistories ==
    {<<>>,
     <<Event(1, <<<<1, 2>>, <<3, 4>>>>), Event(2, <<<<1, 3>>, <<2, 4, 5>>>>)>>}

\* the population: Person 1..n, the first k of them flagged for the head table
Population(n, k) == [i \in 1..n |-> Person(i, i <= k)]

\* the explicit head-table lists: none, or a run of the population
Overrides(att) ==
    {<<>>} \cup {SubSeq(att, a, b) : a \in 1..Len(att), b \in 1..Len(att)}

Idle ==
    /\ recent_pairings = <<>>
    /\ head_table_attendees = <<>>
    /\ other_attendees = <<>>
    /\ best_arrangement = <<>>
    /\ best_score = RInt(-1)
    /\ iter = 0
    /\ scored = 0
    /\ leaders = <<>>
    /\ result = <<>>

Init ==
    /\ pc = "call"
    /\ variant \in Variants
    /\ constraints \in ConstraintValues
    /\ history \in SampleHistories
    /\ memory_events = 3
    /\ \E n \in 0..MaxAttendees : \E k \in 0..n :
            attendees = Population(n, k)
    /\ head_table_assignments \in Overrides(attendees)
    /\ num_tables \in 1..MaxTables
    /\ iterations \in 0..MaxIterations
    /\ table = <<>>
    /\ Idle

Next ==
    \/ OptimizeValidate
    \/ OptimizeIterate
    \/ OptimizeTerminate

Spec == Init /\ [][Next]_vars

(***************************************************************************)
(* Construction of a TableConstraints value from a pair of integers.       *)
(***************************************************************************)
Construct ==
    /\ pc = "new"
    /\ pc' = IF TableConstraintsRaises(constraints.min_seats,
                                       constraints.max_seats)
             THEN "ValidationError" ELSE "constructed"
    /\ UNCHANGED <<variant, constraints, history, memory_events, attendees,
                   num_tables, head_table_assignments, iterations,
                   recent_pairings, head_table_attendees, other_attendees,
                   best_arrangement, best_score, iter, scored, leaders, table,
                   result>>

InitConstruct ==
    /\ pc = "new"
    /\ constraints \in [min_seats : (0 - 2)..MaxArg, max_seats : (0 - 2)..MaxArg]
    /\ variant \in Variants
    /\ history = <<>>
    /\ memory_events = 3
    /\ attendees = <<>>
    /\ head_table_assignments = <<>>
    /\ num_tables = 1
    /\ iterations = 0
    /\ table = <<>>
    /\ Idle

NextConstruct == Construct

SpecConstruct == InitConstruct /\ [][NextConstruct]_vars

(***************************************************************************)
(* The scoring functions applied to one table.                             *)
(***************************************************************************)
ScoreDiversity ==
    /\ pc = "table"
    /\ pc' = "diversity"
    /\ result' = DiversityOf(variant, table, constraints)
    /\ UNCHANGED <<variant, constraints, history, memory_events, attendees,
                   num_tables, head_table_assignments, iterations,
                   recent_pairings, head_table_attendees, other_attendees,
                   best_arrangement, best_score, iter, scored, leaders,
                   table>>

ScorePenalty ==
    /\ pc = "table"
    /\ pc' = "penalty"
    /\ recent_pairings' = get_recent_pairings(history, memory_events)
    /\ result' = calculate_time_weighted_penalty(table, recent_pairings',
                                                 constraints.min_seats)
    /\ UNCHANGED <<variant, constraints, history, memory_events, attendees,
                   num_tables, head_table_assignments, iterations,
                   head_table_attendees, other_attendees, best_arrangement,
                   best_score, iter, scored, leaders, table>>

\* attendee `name` of kind k: every mix of gender, seniority and field
KindAttendee(name, k) ==
    Attendee(name,
             IF k % 2 = 0 THEN "F" ELSE "M",
             IF (k \div 2) % 2 = 0 THEN "senior" ELSE "junior",
             IF k \div 4 = 0 THEN "Sales"
             ELSE IF k \div 4 = 1 THEN "Engineering" ELSE "Marketing",
             FALSE)

NumKinds == Cardinality(Genders) * Cardinality(Seniorities) * Cardinality(Fields)

\* the tables of up to MaxTableLen attendees of any kinds; the scores do not
\* depend on the order of a table, so the kinds are listed in one order
MixedTables ==
    UNION {{[i \in 1..n |-> KindAttendee(i, ks[i])] :
                ks \in {f \in [1..n -> 0..(NumKinds - 1)] :
                            \A i \in 1..n : i < n => f[i] <= f[i + 1]}} :
           n \in 0..MaxTableLen}

\* the seatings of persons 1..3 an event of the history may record
EventPool ==
    {<<<<1, 2, 3>>>>,
     <<<<1, 2>>, <<3>>>>,
     <<<<1, 3>>, <<2>>>>,
     <<<<1>>, <<2, 3>>>>,
     <<<<1>>, <<2>>, <<3>>>>,
     <<<<1, 2>>>>}

\* the histories of up to MaxEvents events, in chronological order
Histories ==
    UNION {{[i \in 1..n |-> Event(i, es[i])] : es \in [1..n -> EventPool]} :
           n \in 0..MaxEvents}

\* the tables of persons 1..4 (person 4 is in no event)
NamedTables ==
    {[i \in 1..Cardinality(S) |-> Person(SetToSortedSeq(S)[i], FALSE)] :
        S \in SUBSET (1..4)}

MinSeatsValues == {c \in ConstraintValues : c.max_seats = MaxSeats}

InitScore ==
    /\ pc = "table"
    /\ constraints \in MinSeatsValues
    /\ \/ /\ variant \in Variants
          /\ table \in MixedTables
          /\ history = <<>>
          /\ memory_events = 3
       \/ /\ variant = "SeatingPlanner"
          /\ table \in NamedTables
          /\ history \in Histories
          /\ memory_events \in 0..MaxEvents
    /\ attendees = <<>>
    /\ head_table_assignments = <<>>
    /\ num_tables = 1
    /\ iterations = 0
    /\ Idle

NextScore ==
    \/ ScoreDiversity
    \/ ScorePenalty

SpecScore == InitScore /\ [][NextScore]_vars

(***************************************************************************)
(* A session of SeatingPlanner.py: optimize_seating calls and              *)
(* save_arrangement calls on one optimizer and one history, as in          *)
(* test_seating_history.                                                   *)
(***************************************************************************)
\* history.save_arrangement(arrangement, date) with the last arrangement
\* optimize_seating returned
SaveArrangement ==
    /\ pc \in {"returned", "saved"}
    /\ Len(history) < MaxSaves
    /\ \E date \in 1..MaxDate :
            history' = save_arrangement(history, result, date)
    /\ pc' = "saved"
    /\ UNCHANGED <<variant, constraints, memory_events, attendees,
                   num_tables, head_table_assignments, iterations,
                   recent_pairings, head_table_attendees, other_attendees,
                   best_arrangement, best_score, iter, scored, leaders,
                   table, result>>

\* the next optimizer.optimize_seating(attendees, num_tables) call: a new
\* frame of locals
SessionCall ==
    /\ pc \in {"returned", "saved", "ConstraintError", "InfeasibleError",
               "InternalError", "ZeroDivisionError"}
    /\ pc' = "call"
    /\ recent_pairings' = <<>>
    /\ head_table_attendees' = <<>>
    /\ other_attendees' = <<>>
    /\ best_arrangement' = <<>>
    /\ best_score' = RInt(-1)
    /\ iter' = 0
    /\ scored' = 0
    /\ leaders' = <<>>
    /\ UNCHANGED <<variant, constraints, history, memory_events, attendees,
                   num_tables, head_table_assignments, iterations, table,
                   result>>

\* a new history file; 2 * MaxSeats attendees, the first MaxSeats - 1 of
\* them flagged for the head table
InitSession ==
    /\ pc = "call"
    /\ variant = "SeatingPlanner"
    /\ constraints = [min_seats |-> 2, max_seats |-> MaxSeats]
    /\ history = <<>>
    /\ memory_events \in 1..MaxSaves
    /\ attendees = Population(2 * MaxSeats, MaxSeats - 1)
    /\ head_table_assignments = <<>>
    /\ num_tables \in 1..MaxTables
    /\ iterations \in 1..MaxIterations
    /\ table = <<>>
    /\ Idle

NextSession ==
    \/ OptimizeValidate
    \/ OptimizeIterate
    \/ OptimizeTerminate
    \/ SaveArrangement
    \/ SessionCall

SpecSession == InitSession /\ [][NextSession]_vars

(***************************************************************************)
(* One call of optimize_seating whose explicit head-table list holds       *)
(* records built apart from the population: an Attendee is a dataclass, so *)
(* `a in list` compares all five fields (the generated __eq__), while      *)
(* __hash__ uses the name only.                                            *)
(***************************************************************************)
\* the records that carry the name of one of the first two attendees, with
\* any gender and any flag
Lookalikes(att) ==
    {Attendee(att[i].name, g, att[i].seniority, att[i].field, f) :
        i \in 1..Min2(2, Len(att)), g \in Genders, f \in BOOLEAN}

\* hash(a) == hash(b) in Python, where __hash__ returns hash(self.name)
SameHash(a, b) == a.name = b.name

InitSplit ==
    /\ pc = "call"
    /\ variant \in Variants
    /\ constraints = [min_seats |-> 2, max_seats |-> MaxSeats]
    /\ history = <<>>
    /\ memory_events = 3
    /\ \E k \in 0..1 : attendees = Population(MaxSeats + 2, k)
    /\ \E len \in 1..2 :
            head_table_assignments \in [1..len -> Lookalikes(attendees)]
    /\ num_tables = 2
    /\ iterations = 1
    /\ table = <<>>
    /\ Idle

NextSplit ==
    \/ OptimizeValidate
    \/ OptimizeIterate
    \/ OptimizeTerminate

SpecSplit == InitSplit /\ [][NextSplit]_vars

(***************************************************************************)
(* The search loop of one optimize_seating call on the sample population,  *)
(* without an explicit head-table list.                                    *)
(***************************************************************************)
InitLoop ==
    /\ pc = "call"
    /\ variant \in Variants
    /\ constraints \in ConstraintValues
    /\ history \in SampleHistories
    /\ memory_events = 3
    /\ \E k \in 0..1 : attendees = Population(MaxAttendees - 1, k)
    /\ head_table_assignments = <<>>
    /\ num_tables \in 1..MaxTables
    /\ iterations \in 0..(MaxIterations + 1)
    /\ table = <<>>
    /\ Idle

NextLoop ==
    \/ OptimizeValidate
    \/ OptimizeIterate
    \/ OptimizeTerminate

SpecLoop == InitLoop /\ [][NextLoop]_vars

(***************************************************************************)
(* create_balanced_tables applied to one pool.                             *)
(***************************************************************************)
Balance ==
    /\ pc = "pool"
    /\ pc' = "balanced"
    /\ result' = create_balanced_tables(attendees, num_tables, constraints)
    /\ UNCHANGED <<variant, constraints, history, memory_events, attendees,
                   num_tables, head_table_assignments, iterations,
                   recent_pairings, head_table_attendees, other_attendees,
                   best_arrangement, best_score, iter, scored, leaders,
                   table>>

\* the slicing of seating_planner.py applied to the same pool
Slice ==
    /\ pc = "pool"
    /\ pc' = "sliced"
    /\ result' = ExactRemainderTables(attendees, num_tables, constraints)
    /\ UNCHANGED <<variant, constraints, history, memory_events, attendees,
                   num_tables, head_table_assignments, iterations,
                   recent_pairings, head_table_attendees, other_attendees,
                   best_arrangement, best_score, iter, scored, leaders,
                   table>>

InitPartition ==
    /\ pc = "pool"
    /\ variant = "SeatingPlanner"
    /\ constraints \in ConstraintValues
    /\ history = <<>>
    /\ memory_events = 3
    /\ \E m \in 0..MaxPool : attendees = Population(m, 0)
    /\ head_table_assignments = <<>>
    /\ num_tables \in 1..MaxTables
    /\ iterations = 0
    /\ table = <<>>
    /\ Idle

NextPartition ==
    \/ Balance
    \/ Slice

SpecPartition == InitPartition /\ [][NextPartition]_vars

(***************************************************************************)
(* One candidate of the search loop: the arrangement an iteration builds   *)
(* from a population without fixed head-table attendees, and its scoring.  *)
(***************************************************************************)
\* a population of n attendees of one gender, seniority and field
Alike(n) == [i \in 1..n |-> Attendee(i, "M", "junior", "Sales", FALSE)]

\* current_arrangement of an iteration whose shuffles are the identity
CandidateOf(v, att, tables_wanted, c) ==
    LET p1 == Identity(Len(AvailableForHead(v, att)))
        current_head_table == CurrentHeadTable(v, <<>>, att, c, p1)
        pool == RemainingPool(v, <<>>, att, c, p1)
        other_tables == Partition(v, pool, tables_wanted - 1, c)
    IN  [raised |-> other_tables.raised,
         tables |-> <<current_head_table>> \o other_tables.tables]

CandidateTableCounts == (1..MaxTables) \cup {UnbalancedTables, CrowdedTables}

\* the pool sizes of the candidates: every size the limits allow for a few
\* tables; for many tables min_seats each, plus one more at half of the
\* tables where the limits leave room for it
CandidatePools(tables_wanted, c) ==
    IF tables_wanted <= MaxTables
    THEN ((tables_wanted - 1) * c.min_seats)..((tables_wanted - 1) * c.max_seats)
    ELSE {(tables_wanted - 1) * c.min_seats
            + (IF c.min_seats < c.max_seats THEN (tables_wanted - 1) \div 2
               ELSE 0)}

\* the scoring of current_arrangement and the comparison with the best
ScoreCandidate ==
    /\ pc = "candidate"
    /\ pc' = "scored"
    /\ \E candidate \in
            {[current_arrangement |-> result.tables,
              size_balance_score |->
                  size_balance_score(variant, result.tables, constraints),
              current_score |->
                  current_score(variant, result.tables, recent_pairings,
                                constraints)]} :
            /\ result' = candidate
            /\ iter' = iter + 1
            /\ scored' = scored + 1
            /\ leaders' = LeadersAfter(leaders,
                               [arrangement |-> candidate.current_arrangement,
                                score |-> candidate.current_score])
            /\ IF Improves(candidate.current_score, best_score)
               THEN /\ best_score' = candidate.current_score
                    /\ best_arrangement' = candidate.current_arrangement
               ELSE UNCHANGED <<best_arrangement, best_score>>
    /\ UNCHANGED <<variant, constraints, history, memory_events, attendees,
                   num_tables, head_table_assignments, iterations,
                   recent_pairings, head_table_attendees, other_attendees,
                   table>>

InitCandidate ==
    /\ pc = "candidate"
    /\ variant \in Variants
    /\ constraints \in ConstraintValues
    /\ history \in SampleHistories
    /\ memory_events = 3
    /\ num_tables \in CandidateTableCounts
    /\ \E m \in CandidatePools(num_tables, constraints) :
            attendees \in {Population(constraints.max_seats + m, 0),
                           Alike(constraints.max_seats + m)}
    /\ head_table_assignments = <<>>
    /\ iterations = 1
    /\ table = <<>>
    /\ recent_pairings = get_recent_pairings(history, memory_events)
    /\ head_table_attendees = <<>>
    /\ other_attendees = attendees
    /\ best_arrangement = <<>>
    /\ best_score = RInt(-1)
    /\ iter = 0
    /\ scored = 0
    /\ leaders = <<>>
    /\ result = CandidateOf(variant, attendees, num_tables, constraints)
    /\ result.raised = "none"

NextCandidate == ScoreCandidate

SpecCandidate == InitCandidate /\ [][NextCandidate]_vars

(***************************************************************************)
(* Calls with many flagged attendees and a short explicit head-table list: *)
(* the fill of the head table in both files.                               *)
(***************************************************************************)
InitHeadTable ==
    /\ pc = "call"
    /\ variant \in Variants
    /\ constraints = [min_seats |-> 2, max_seats |-> MaxSeats]
    /\ history \in SampleHistories
    /\ memory_events = 3
    /\ \E k \in (2 * MaxSeats - 1)..(2 * MaxSeats + 1) :
            attendees = Population(2 * MaxSeats + 1, k)
    /\ head_table_assignments \in {<<>>, SubSeq(attendees, 1, 1)}
    /\ num_tables = MaxTables
    /\ iterations \in 1..MaxIterations
    /\ table = <<>>
    /\ Idle

NextHeadTable ==
    \/ OptimizeValidate
    \/ OptimizeIterate
    \/ OptimizeTerminate

SpecHeadTable == InitHeadTable /\ [][NextHeadTable]_vars

(***************************************************************************)
(* Properties                                                              *)
(***************************************************************************)
Names(tbl) == {tbl[i].name : i \in 1..Len(tbl)}

Seats(arrangement) ==
    UNION {{<<t, k>> : k \in 1..Len(arrangement[t])} :
           t \in 1..Len(arrangement)}

\* how many seats of the arrangement are taken by `name`
SeatCount(arrangement, name) ==
    Cardinality({s \in Seats(arrangement) :
                    arrangement[s[1]][s[2]].name = name})

SeatedNames(arrangement) ==
    {arrangement[s[1]][s[2]].name : s \in Seats(arrangement)}

Flagged(att) == {att[i] : i \in {j \in 1..Len(att) : att[j].assign_head_table}}

\* the number of fixed head-table attendees of the call
FixedHeadCount ==
    IF head_table_assignments # <<>> THEN Len(head_table_assignments)
    ELSE Cardinality({i \in 1..Len(attendees) :
                        attendees[i].assign_head_table})

TooFewAttendees ==
    Len(attendees) < constraints.max_seats
                        + constraints.min_seats * (num_tables - 1)

C2_TableSizes ==
    pc = "returned" =>
        /\ Len(result) = num_tables
        /\ Len(result[1]) = constraints.max_seats
        /\ \A t \in 2..Len(result) :
            /\ constraints.min_seats <= Len(result[t])
            /\ Len(result[t]) <= constraints.max_seats

C2_Witness ==
    /\ pc = "returned"
    /\ num_tables = 3
    /\ scored = 2
    /\ variant = "SeatingPlanner"

\* C3 as stated: in every returned arrangement every flagged attendee of
\* the population sits at table 0, with or without an explicit list.
C3_FlaggedAtHeadTable ==
    pc = "returned" => Flagged(attendees) \subseteq Range(result[1])

\* C3 amended: every attendee of the fixed head-table list (the explicit
\* list when a non-empty one is passed, the flagged attendees otherwise)
\* sits at table 0; hence every flagged attendee sits there when no explicit
\* list is passed or the explicit list contains all flagged attendees.
C3_FixedHeadAtHeadTable ==
    pc = "returned" =>
        /\ Range(head_table_assignments) \subseteq Range(result[1])
        /\ (\/ head_table_assignments = <<>>
            \/ Flagged(attendees) \subseteq Range(head_table_assignments))
                => Flagged(attendees) \subseteq Range(result[1])

C3_Witness ==
    /\ pc = "returned"
    /\ head_table_assignments = <<>>
    /\ Cardinality(Flagged(attendees)) = 2
    /\ Len(result[1]) > 2
    /\ num_tables >= 2

\* C4: the call ends with the constraint error exactly when the population
\* is smaller than max_seats + min_seats * (num_tables - 1) or more than
\* max_seats attendees are fixed at the head table, and then no iteration
\* has run; otherwise validation passes and the call goes on to the loop.
C4_ConstraintErrorExactly ==
    pc # "call" =>
        /\ (pc = "ConstraintError")
                <=> (TooFewAttendees \/ FixedHeadCount > constraints.max_seats)
        /\ pc = "ConstraintError" =>
                iter = 0 /\ scored = 0 /\ best_arrangement = <<>>
        /\ pc # "ConstraintError" =>
                pc \in {"loop", "returned", "InfeasibleError",
                        "InternalError", "ZeroDivisionError"}

C4_Witness ==
    /\ pc = "ConstraintError"
    /\ ~TooFewAttendees
    /\ FixedHeadCount > constraints.max_seats
    /\ head_table_assignments = <<>>

\* C5 as stated: once validation has passed, the call ends with the
\* infeasible error exactly when no iteration scored a candidate, and it
\* returns an arrangement when some iteration did.
C5_InfeasibleIffNoneFeasible ==
    pc \notin {"call", "loop", "ConstraintError"} =>
        /\ (pc = "InfeasibleError") <=> (scored = 0)
        /\ scored > 0 => pc = "returned"

\* C6: the construction fails exactly when min_seats > max_seats or
\* min_seats < 2, so a constructed value has 2 <= min_seats <= max_seats.
C6_ValidationExactly ==
    pc \in {"ValidationError", "constructed"} =>
        /\ (pc = "ValidationError")
                <=> (\/ constraints.min_seats > constraints.max_seats
                     \/ constraints.min_seats < 2)
        /\ pc = "constructed" =>
                /\ 2 <= constraints.min_seats
                /\ constraints.min_seats <= constraints.max_seats

C6_Witness ==
    /\ pc = "constructed"
    /\ constraints = [min_seats |-> 2, max_seats |-> 2]

\* C7: the diversity score of a table below min_seats is exactly 0, and of
\* any other table it lies in [0, 1].
C7_DiversityRange ==
    pc = "diversity" =>
        IF Len(table) < constraints.min_seats THEN result = RInt(0)
        ELSE RLeq(RInt(0), result) /\ RLeq(result, RInt(1))

C7_Witness ==
    /\ pc = "diversity"
    /\ Len(table) >= constraints.min_seats
    /\ result = RInt(1)

\* an in-table pair was seated together in an event of the memory
HasRecordedHistory(tbl, pairings) ==
    \E c \in Combinations2(Len(tbl)) :
        LET pair == SortedPair(tbl[c[1]].name, tbl[c[2]].name)
        IN  /\ pair \in DOMAIN pairings
            /\ \E e \in 1..Len(pairings[pair]) : pairings[pair][e] = 1

\* C8: for a table of at least min_seats attendees none of whose pairs has
\* recorded history the recency penalty is exactly 1.
C8_NoHistoryScoresOne ==
    (/\ pc = "penalty"
     /\ Len(table) >= constraints.min_seats
     /\ ~HasRecordedHistory(table, recent_pairings))
        => result = RInt(1)

C8_Witness ==
    /\ pc = "penalty"
    /\ Len(table) >= constraints.min_seats
    /\ ~HasRecordedHistory(table, recent_pairings)
    /\ PairsWithHistory(table, recent_pairings) # {}
    /\ Len(history) = MaxEvents

\* C9: the recency penalty lies in [0, 1], and is 0 for a table below
\* min_seats.
C9_PenaltyRange ==
    pc = "penalty" =>
        /\ RLeq(RInt(0), result)
        /\ RLeq(result, RInt(1))
        /\ Len(table) < constraints.min_seats => result = RInt(0)

C9_Witness ==
    /\ pc = "penalty"
    /\ Len(table) >= constraints.min_seats
    /\ result = RInt(0)

Reverse(s) == [i \in 1..Len(s) |-> s[Len(s) + 1 - i]]

\* the recency penalty with weight 1.0 on the most recent event of the
\* window, 0.6 on the one before and 0.3 on the third most recent
MostRecentFirstPenalty(tbl, pairings, min_seats) ==
    IF tbl = <<>> \/ Len(tbl) < min_seats THEN RInt(0)
    ELSE
        LET known == PairsWithHistory(tbl, pairings)
            total ==
                RSumFn([c \in known |->
                    LET slots == Reverse(pairings[SortedPair(tbl[c[1]].name,
                                                             tbl[c[2]].name)])
                        n == Min2(3, Len(slots))
                    IN  RSum([k \in 1..n |->
                                RMul(<<Rat(1, 1), Rat(6, 10), Rat(3, 10)>>[k],
                                     RInt(slots[k]))])])
        IN  IF known = {} THEN RInt(1)
            ELSE RMax(RInt(0),
                      RSub(RInt(1), RDiv(total, RInt(Cardinality(known)))))

\* C10 as stated: the penalty weighs a pair's seating in the most recent
\* event of the window by 1.0, in the second most recent by 0.6 and in the
\* third most recent by 0.3.
C10_MostRecentWeighsMost ==
    pc = "penalty" =>
        result = MostRecentFirstPenalty(table, recent_pairings,
                                        constraints.min_seats)

\* the last min(mem, len(hist)) events of the history
MostRecent(hist, mem) ==
    SubSeq(hist, Len(hist) - Min2(mem, Len(hist)) + 1, Len(hist))

\* the names seated in the events of a window
WindowNames(window) ==
    UNION {EventNames(window[e]) : e \in 1..Len(window)}

\* the mapping records the events of `window`, slot by slot
RecordsWindow(pairings, window) ==
    \A pair \in DOMAIN pairings :
        /\ pair[1] \in WindowNames(window)
        /\ pair[2] \in WindowNames(window)
        /\ Len(pairings[pair]) = Len(window)
        /\ \A e \in 1..Len(window) :
                pairings[pair][e] = 1 <=> CoSeated(window[e], pair)

\* C11 as stated: for every memory_events >= 0 the mapping is built from
\* the memory_events most recent events of the history (all of them when
\* the history is shorter), in chronological order, and every vector has
\* one slot per event of that window.
C11_WindowIsMostRecent ==
    pc = "penalty" =>
        RecordsWindow(recent_pairings, MostRecent(history, memory_events))

\* the pairs of two different names of the window, smaller name first
WindowPairs(window) ==
    {pair \in WindowNames(window) \X WindowNames(window) : pair[1] < pair[2]}

\* C12 as stated: every entry of the mapping has a 1 in some slot, that is,
\* a pair never seated together in the window has no entry.
C12_Sparse ==
    pc = "penalty" =>
        \A pair \in DOMAIN recent_pairings :
            \E e \in 1..Len(recent_pairings[pair]) :
                recent_pairings[pair][e] = 1

\* C12 amended: the mapping has an entry for every pair of attendees who
\* both appear in some event of the window, all zeros when the two were
\* never seated together, and no entry for any other pair; the recency
\* average runs over the in-table pairs whose two members both appear in
\* the window.
C12_EntryForEveryWindowPair ==
    pc = "penalty" =>
        LET window == RecentEvents(history, memory_events)
        IN  /\ DOMAIN recent_pairings = WindowPairs(window)
            /\ RecordsWindow(recent_pairings, window)
            /\ PairsWithHistory(table, recent_pairings) =
                    {c \in Combinations2(Len(table)) :
                        /\ table[c[1]].name \in WindowNames(window)
                        /\ table[c[2]].name \in WindowNames(window)}

C12_Witness ==
    /\ pc = "penalty"
    /\ memory_events >= 1
    /\ Len(table) >= constraints.min_seats
    /\ \E pair \in DOMAIN recent_pairings :
            /\ \A e \in 1..Len(recent_pairings[pair]) :
                    recent_pairings[pair][e] = 0
            /\ {pair[1], pair[2]} \subseteq Names(table)
    /\ RLess(RInt(0), result)
    /\ RLess(result, RInt(1))

\* the sequence without its i-th element
WithoutIndex(seq, i) == SubSeq(seq, 1, i - 1) \o SubSeq(seq, i + 1, Len(seq))

\* the history has gained exactly one event, which records `arrangement`,
\* and has kept every other event, in the order they had
GainsEvent(before, after, arrangement) ==
    \E i \in 1..Len(after) :
        /\ after[i].arrangement = arrangement
        /\ WithoutIndex(after, i) = before

\* C13: no step of an optimize_seating call, successful or failing, changes
\* the history; the history changes only by a save_arrangement call, which
\* adds the arrangement it is given.
C13_HistoryFrame ==
    [][/\ pc \in {"call", "loop"} => history' = history
       /\ history' # history =>
            /\ pc \in {"returned", "saved"}
            /\ pc' = "saved"
            /\ GainsEvent(history, history', result)]_vars

C13_Witness ==
    /\ pc = "returned"
    /\ Len(history) = 1
    /\ history[1].arrangement # result

\* the pairs of names seated together at some table of the arrangement
PairSet(arrangement) ==
    UNION {{SortedPair(arrangement[t][c[1]].name, arrangement[t][c[2]].name) :
                c \in Combinations2(Len(arrangement[t]))} :
           t \in 1..Len(arrangement)}

\* C14: throughout an optimize_seating call the pairing memory is the one
\* of the history at the start of the call: it has an entry for every pair
\* of the window, and every pair seated together in a committed event of
\* the window has a 1 in the slot of that event.
C14_MemoryOfCurrentHistory ==
    pc \notin {"call", "saved"} =>
        LET window == MostRecent(history, memory_events)
        IN  /\ DOMAIN recent_pairings = WindowPairs(window)
            /\ \A e \in 1..Len(window) :
                    \A pair \in PairSet(window[e].arrangement) :
                        /\ Len(recent_pairings[pair]) = Len(window)
                        /\ recent_pairings[pair][e] = 1

C14_Witness ==
    /\ pc = "loop"
    /\ scored >= 1
    /\ Len(history) = 2
    /\ memory_events = 1
    /\ PairSet(history[1].arrangement) # PairSet(history[2].arrangement)

SortedByDate(hist) ==
    \A i, j \in 1..Len(hist) : i < j => hist[i].date <= hist[j].date

C17_EqualByName ==
    /\ pc # "call" =>
            /\ \A a \in Range(attendees) :
                    \A b \in Range(head_table_attendees) :
                        /\ (a = b) <=> (a.name = b.name)
                        /\ a.name = b.name => SameHash(a, b)
            /\ \A a \in Range(attendees) :
                    a.name \in Names(head_table_attendees)
                        => a \notin Range(other_attendees)
    /\ pc = "returned" =>
            \A name \in SeatedNames(result) : SeatCount(result, name) = 1

\* C18: after every iteration the tracked best arrangement is the first, in
\* iteration order, of the scored candidates with the highest score so far,
\* and the best score is that score; a candidate replaces it only with a
\* strictly higher score.
C18_FirstOfTheBest ==
    /\ [](pc \in {"loop", "returned"} =>
            IF scored = 0 THEN best_arrangement = <<>> /\ leaders = <<>>
            ELSE /\ best_arrangement = leaders[1].arrangement
                 /\ best_score = leaders[1].score
                 /\ best_score = current_score(variant, best_arrangement,
                                               recent_pairings, constraints))
    /\ [][best_arrangement' # best_arrangement /\ pc = "loop"
            => RLess(best_score, best_score')]_vars

C18_Witness ==
    /\ pc = "loop"
    /\ iter = MaxIterations + 1
    /\ Len(leaders) = 2
    /\ leaders[2].arrangement # leaders[1].arrangement
    /\ best_arrangement = leaders[1].arrangement

\* C19: an iteration whose partition is infeasible changes neither the best
\* arrangement nor the best score, scores nothing, and leaves the loop
\* running; the call ends with the infeasible error only after the whole
\* budget has run without a scored candidate.
C19_InfeasibleIterationSkipped ==
    /\ [][(pc = "loop" /\ iter' = iter + 1 /\ scored' = scored)
            => /\ pc' = "loop"
               /\ best_arrangement' = best_arrangement
               /\ best_score' = best_score
               /\ leaders' = leaders]_vars
    /\ [](pc = "InfeasibleError" => iter = iterations /\ scored = 0)
    /\ [](pc = "loop" => iter <= iterations)

C19_Witness ==
    /\ pc = "loop"
    /\ iter = 2
    /\ scored = 0
    /\ iterations = MaxIterations + 1

\* no table sizes within [min_seats, max_seats] add up to the pool
Unplaceable(pool_size, tables_wanted, c) ==
    \/ pool_size < tables_wanted * c.min_seats
    \/ pool_size > tables_wanted * c.max_seats

\* C20 as stated: for every pool, the empty one included, and num_tables >=
\* 1, the partition fails when floor(|pool| / num_tables) < min_seats or
\* when the pool cannot be placed within the limits.
C20_FailsWheneverUnplaceable ==
    (/\ pc = "balanced"
     /\ \/ Len(attendees) \div num_tables < constraints.min_seats
        \/ Unplaceable(Len(attendees), num_tables, constraints))
        => result.raised = "ValueError"

\* C20 amended: the empty pool is returned as the empty list of tables; a
\* non-empty pool fails exactly when floor(|pool| / num_tables) < min_seats
\* or |pool| > num_tables * max_seats, that is, exactly when it cannot be
\* placed within the limits, and a returned result has num_tables tables
\* within the limits that hold every member of the pool once.
C20_FailsUnlessEmptyOrPlaceable ==
    pc = "balanced" =>
        IF attendees = <<>> THEN result = Returns(<<>>)
        ELSE /\ (result.raised = "ValueError")
                    <=> (\/ Len(attendees) \div num_tables
                                < constraints.min_seats
                         \/ Len(attendees)
                                > num_tables * constraints.max_seats)
             /\ (result.raised = "ValueError")
                    <=> Unplaceable(Len(attendees), num_tables, constraints)
             /\ result.raised \in {"none", "ValueError"}
             /\ result.raised = "none" =>
                    /\ Len(result.tables) = num_tables
                    /\ \A t \in 1..num_tables :
                            /\ constraints.min_seats <= Len(result.tables[t])
                            /\ Len(result.tables[t]) <= constraints.max_seats
                    /\ \A name \in Names(attendees) :
                            SeatCount(result.tables, name) = 1

C20_Witness ==
    /\ pc = "balanced"
    /\ result.raised = "ValueError"
    /\ Len(attendees) \div num_tables >= constraints.min_seats
    /\ num_tables = MaxTables

\* the tables of a successful partition hold exactly the pool, each member
\* once, in tables_wanted tables within the limits
PartitionsPool(outcome, pool, tables_wanted, c) ==
    /\ Len(outcome.tables) = tables_wanted
    /\ SeatedNames(outcome.tables) = Names(pool)
    /\ \A name \in Names(pool) : SeatCount(outcome.tables, name) = 1
    /\ \A t \in 1..Len(outcome.tables) :
            /\ c.min_seats <= Len(outcome.tables[t])
            /\ Len(outcome.tables[t]) <= c.max_seats

\* C21 as stated: whenever a partition succeeds, greedy-remainder or
\* exact-remainder, it returns exactly num_tables tables within the limits
\* that hold every element of the pool exactly once and nothing else.
C21_SuccessPartitionsPool ==
    (pc \in {"balanced", "sliced"} /\ result.raised = "none")
        => PartitionsPool(result, attendees, num_tables, constraints)

\* C21 amended: the same for every non-empty pool; the greedy-remainder
\* partition of the empty pool succeeds with no tables at all, and the
\* exact-remainder partition of the empty pool does not succeed.
C21_SuccessPartitionsNonEmptyPool ==
    (pc \in {"balanced", "sliced"} /\ result.raised = "none") =>
        IF attendees # <<>>
        THEN PartitionsPool(result, attendees, num_tables, constraints)
        ELSE pc = "balanced" /\ result.tables = <<>>

C21_Witness ==
    /\ pc = "sliced"
    /\ result.raised = "none"
    /\ num_tables = MaxTables
    /\ Len(attendees) % num_tables = 2
    /\ constraints.min_seats < constraints.max_seats

\* the list of table sizes of a partition
Sizes(outcome) == [t \in 1..Len(outcome.tables) |-> Len(outcome.tables[t])]

\* the two partitions fail on the same input or succeed with the same sizes
SameSizes(greedy, exact) ==
    /\ greedy.raised = exact.raised
    /\ Sizes(greedy) = Sizes(exact)

\* C22 as stated: there are a pool size not divisible by num_tables, a
\* num_tables and limits for which the greedy-remainder and the
\* exact-remainder partition produce different lists of table sizes, or for
\* which one succeeds and the other fails.
C22_NotEquivalent ==
    pc \in {"pool", "balanced", "sliced"} =>
        \E m \in 1..MaxPool : \E tables_wanted \in 1..MaxTables :
            \E c \in ConstraintValues :
                /\ m % tables_wanted # 0
                /\ ~SameSizes(create_balanced_tables(Population(m, 0),
                                                     tables_wanted, c),
                              ExactRemainderTables(Population(m, 0),
                                                   tables_wanted, c))

\* C22 amended: for every non-empty pool, divisible or not, the two
\* partitions fail on the same inputs and otherwise produce the same list
\* of table sizes; they differ for the empty pool, which the greedy one
\* returns as no tables and the exact one rejects, and in which members of
\* the pool go to which table.
C22_SameSizesUnlessEmpty ==
    pc \in {"balanced", "sliced"} =>
        LET greedy == IF pc = "balanced" THEN result
                      ELSE create_balanced_tables(attendees, num_tables,
                                                  constraints)
            exact == IF pc = "sliced" THEN result
                     ELSE ExactRemainderTables(attendees, num_tables,
                                               constraints)
        IN  IF attendees # <<>> THEN SameSizes(greedy, exact)
            ELSE greedy = Returns(<<>>) /\ exact = Raises("ValueError")

C22_Witness ==
    /\ pc = "sliced"
    /\ result.raised = "none"
    /\ Len(attendees) % num_tables # 0
    /\ num_tables = MaxTables
    /\ Sizes(result) = <<3, 2, 2>>
    /\ result.tables # create_balanced_tables(attendees, num_tables,
                                              constraints).tables

\* the sizes of the flexible tables of an arrangement
FlexibleSizes(current_arrangement) ==
    [t \in 1..(Len(current_arrangement) - 1) |->
        Len(current_arrangement[t + 1])]

\* the sum of |s1 - s2| over the unordered pairs of a list of sizes
RECURSIVE PairwiseDifferences(_)
PairwiseDifferences(sizes) ==
    IF Len(sizes) < 2 THEN 0
    ELSE LET rest == Tail(sizes)
             first ==
                [k \in 1..Len(rest) |-> RInt(Abs(sizes[1] - rest[k]))]
         IN  RSum(first)[1] + PairwiseDifferences(rest)

\* C23 as stated: for every scored candidate size_balance_score is
\* 1 - (sum of pairwise size differences among the flexible tables) /
\* (number of flexible tables * max_seats), the head table not counted in
\* the divisor, and 1 when there is one flexible table.
C23_DividedByFlexibleTables ==
    pc = "scored" =>
        LET sizes == FlexibleSizes(result.current_arrangement)
        IN  result.size_balance_score =
                IF Len(sizes) < 2 THEN RInt(1)
                ELSE RSub(RInt(1),
                          Rat(PairwiseDifferences(sizes),
                              Len(sizes) * constraints.max_seats))

\* C24 as stated: the size_balance_score used in the composite score of a
\* feasible candidate lies in [0, 1], for every number of flexible tables
\* and all valid limits.
C24_SizeBalanceRange ==
    pc = "scored" =>
        /\ RLeq(RInt(0), result.size_balance_score)
        /\ RLeq(result.size_balance_score, RInt(1))

\* the mean of a score over all tables of an arrangement, head table included
MeanOverTables(current_arrangement, score_of(_)) ==
    RDiv(RSum([t \in 1..Len(current_arrangement) |->
                  score_of(current_arrangement[t])]),
         RInt(Len(current_arrangement)))

\* 0.60 * mean diversity + 0.25 * mean recency + 0.15 * size balance
Composite(v, current_arrangement, pairings, c, balance) ==
    RAdd(RAdd(RMul(Rat(60, 100),
                   MeanOverTables(current_arrangement,
                                  LAMBDA tbl : DiversityOf(v, tbl, c))),
              RMul(Rat(25, 100),
                   MeanOverTables(current_arrangement,
                                  LAMBDA tbl :
                                      calculate_time_weighted_penalty(
                                          tbl, pairings, c.min_seats)))),
         RMul(Rat(15, 100), balance))

\* C25 as stated: the composite score of every candidate is 0.60 * mean
\* diversity + 0.25 * mean recency penalty + 0.15 * size_balance_score,
\* the means taken over all tables, and lies in [0, 1].
C25_CompositeInUnitInterval ==
    pc = "scored" =>
        /\ result.current_score =
                Composite(variant, result.current_arrangement,
                          recent_pairings, constraints,
                          result.size_balance_score)
        /\ RLeq(RInt(0), result.current_score)
        /\ RLeq(result.current_score, RInt(1))

\* some table of the arrangement has fewer than min_seats attendees
HasShortTable(arrangement, c) ==
    \E t \in 1..Len(arrangement) : Len(arrangement[t]) < c.min_seats

\* C26 as stated: an arrangement with a table below min_seats is never
\* returned, and is never the tracked best arrangement unless it is the
\* only feasible sample of the call.
C26_ShortTableNeverBest ==
    /\ pc = "returned" => ~HasShortTable(result, constraints)
    /\ (pc \notin {"call", "loop"}
            /\ HasShortTable(best_arrangement, constraints))
            => scored = 1

\* C27 as stated: once validation has passed, the call ends only after
\* exactly `iterations` iterations of the search loop have run, feasible or
\* not; no iteration ends the loop early.
C27_ExactlyIterationsIterations ==
    /\ pc \notin {"call", "loop", "ConstraintError"} => iter = iterations
    /\ pc = "loop" => iter <= iterations

\* the number of attendees left for the flexible tables once the head
\* table of an iteration is filled
PoolLeft ==
    LET seats_needed ==
            Max2(0, constraints.max_seats - Len(head_table_attendees))
        unflagged ==
            Cardinality({i \in 1..Len(other_attendees) :
                            ~other_attendees[i].assign_head_table})
    IN  IF variant = "SeatingPlanner"
        THEN Len(other_attendees) - Min2(seats_needed, Len(other_attendees))
        ELSE Len(other_attendees) - Min2(seats_needed, unflagged)

\* C28 as stated: for a call that passed validation either every iteration
\* is feasible or none is, none is feasible exactly when the pool left
\* after filling the head table exceeds (num_tables - 1) * max_seats, and
\* with at least one iteration the call ends with the infeasible error
\* exactly in that case.
C28_FeasibilityFixedByPoolSize ==
    pc \notin {"call", "ConstraintError"} =>
        /\ scored = 0 \/ scored = iter
        /\ iter >= 1 =>
                ((scored = 0)
                    <=> (PoolLeft > (num_tables - 1) * constraints.max_seats))
        /\ (pc # "loop" /\ iterations >= 1) =>
                ((pc = "InfeasibleError")
                    <=> (PoolLeft > (num_tables - 1) * constraints.max_seats))

\* C29 as stated: once validation has passed, every scored candidate has a
\* head table of exactly max_seats attendees, and the check of the head
\* table after the loop never fails, for every population, flags and
\* explicit head-table list.
C29_HeadTableAlwaysFull ==
    /\ pc # "InternalError"
    /\ \A k \in 1..Len(leaders) :
            Len(leaders[k].arrangement[1]) = constraints.max_seats
    /\ best_arrangement # <<>> =>
            Len(best_arrangement[1]) = constraints.max_seats


\* C30 as stated: every call with num_tables >= 1 ends by returning an
\* arrangement or with the constraint error, the infeasible error or the
\* internal postcondition error; no other failure escapes the search loop.
C30_OnlyDeclaredOutcomes ==
    pc \in {"call", "loop", "returned", "ConstraintError", "InfeasibleError",
            "InternalError"}

====
